---- MODULE Spec2Model ----
(***************************************************************************)
(* Model of the dart score inference pipeline of intelligent_darts:        *)
(*   backend/score_detection_service.py  ScoreDetectionService             *)
(*   backend/router.py                   POST /detect-score                *)
(*                                                                         *)
(* A text is a sequence of one-character strings.  Python's None and a     *)
(* missing attribute are the one-element sequences None and Absent, whose  *)
(* single element is no character, so that they differ from every text.    *)
(***************************************************************************)
EXTENDS Integers, Sequences, FiniteSets, TLC

VARIABLES
    pc,        \* pipeline position: "call1", "call2" (a query is in flight) or "done"
    calls,     \* the queries issued to the serving endpoint so far, in order
    first,     \* first attempt: the reply, the extracted text, the parse
    retry,     \* correction retry: the reply, the extracted text, the parse
    outcome,   \* what ScoreDetectionService.detect_score returned or raised
    http,      \* what the /detect-score handler answered
    ppc,       \* parser harness position: "off", "text", "parsed", "reparsed"
    ptext,     \* parser harness: the text handed to _parse_scores
    pseq,      \* parser harness: the score sequence ptext was rendered from
    parsed,    \* parser harness: _parse_scores(ptext)
    rendered,  \* parser harness: the parsed scores as comma-separated text
    reparsed   \* parser harness: _parse_scores(rendered)

vars == <<pc, calls, first, retry, outcome, http,
          ppc, ptext, pseq, parsed, rendered, reparsed>>
pipeVars == <<pc, calls, first, retry, outcome, http>>
parseVars == <<ppc, ptext, pseq, parsed, rendered, reparsed>>

----------------------------------------------------------------------------
(* Bounds of the model. *)

\* fragments per text handed to the parser harness
MaxFrags == 3
\* fragments per model reply text in the pipeline
MaxReplyFrags == 2
\* scores per rendered sequence in the parser harness
MaxScores == 3

----------------------------------------------------------------------------
(* Python values *)

None == <<"None">>
Absent == <<"<absent>">>

\* str(x) as an f-string renders it
PyStr(x) == IF x = None THEN <<"N", "o", "n", "e">> ELSE x

\* bool(x) of an Optional[str]
Truthy(x) == x # None /\ x # Absent /\ x # <<>>

----------------------------------------------------------------------------
(* str methods and re.findall, character by character *)

IsSpace(c) == c \in {" ", "\t", "\n"}

IsDigit(c) == c \in {"0", "1", "2", "3", "4", "5", "6", "7", "8", "9"}

DigitVal(c) ==
    CASE c = "0" -> 0 [] c = "1" -> 1 [] c = "2" -> 2 [] c = "3" -> 3
      [] c = "4" -> 4 [] c = "5" -> 5 [] c = "6" -> 6 [] c = "7" -> 7
      [] c = "8" -> 8 [] c = "9" -> 9

LowerChar(c) ==
    CASE c = "N" -> "n" [] c = "O" -> "o" [] c = "E" -> "e" [] c = "D" -> "d"
      [] c = "A" -> "a" [] c = "R" -> "r" [] c = "T" -> "t" [] c = "M" -> "m"
      [] c = "P" -> "p" [] c = "Y" -> "y" [] c = "V" -> "v" [] c = "I" -> "i"
      [] c = "S" -> "s" [] c = "B" -> "b" [] c = "L" -> "l" [] c = "C" -> "c"
      [] c = "G" -> "g" [] c = "X" -> "x"
      [] OTHER -> c

\* str.lower()
Lower(s) == [i \in 1..Len(s) |-> LowerChar(s[i])]

RECURSIVE LStrip(_)
LStrip(s) == IF s # <<>> /\ IsSpace(Head(s)) THEN LStrip(Tail(s)) ELSE s

RECURSIVE RStrip(_)
RStrip(s) ==
    IF s # <<>> /\ IsSpace(s[Len(s)]) THEN RStrip(SubSeq(s, 1, Len(s) - 1)) ELSE s

\* str.strip()
Strip(s) == RStrip(LStrip(s))

\* p in s
Contains(s, p) ==
    \E i \in 1..(Len(s) - Len(p) + 1) : SubSeq(s, i, i + Len(p) - 1) = p

\* re.findall(r'\d+', s): the maximal digit runs of s, left to right
RECURSIVE ScanDigits(_, _, _)
ScanDigits(s, i, run) ==
    LET flush == IF run = <<>> THEN <<>> ELSE <<run>> IN
    IF i > Len(s) THEN flush
    ELSE IF IsDigit(s[i]) THEN ScanDigits(s, i + 1, Append(run, s[i]))
    ELSE flush \o ScanDigits(s, i + 1, <<>>)

\* as if the pattern were r'\d': every digit a token of its own
FindAllDigits_single(s) == SelectSeq([i \in 1..Len(s) |-> <<s[i]>>], LAMBDA c : IsDigit(c[1]))

FindAllDigits(s) == ScanDigits(s, 1, <<>>)

\* int(num_str) of a digit run
RECURSIVE PyInt(_)
PyInt(d) ==
    IF d = <<>> THEN 0 ELSE 10 * PyInt(SubSeq(d, 1, Len(d) - 1)) + DigitVal(d[Len(d)])

----------------------------------------------------------------------------
(* ScoreDetectionService._parse_scores *)

MaxScore == 60

NoDartPhrases ==
    { <<"n", "o", " ", "d", "a", "r", "t">>,
      <<"n", "o", " ", "v", "i", "s", "i", "b", "l", "e", " ", "d", "a", "r", "t">>,
      <<"e", "m", "p", "t", "y">>,
      <<"n", "o", "n", "e">> }

IndicatesNoDarts(cleaned) == \E phrase \in NoDartPhrases : Contains(Lower(cleaned), phrase)

\* as if the lower bound were exclusive
ValidScore_positive(score) == 0 < score /\ score <= MaxScore

ValidScore(score) == 0 <= score /\ score <= MaxScore

\* as if an out-of-range value were clamped to the maximum
RECURSIVE KeepValid_clamped(_)
KeepValid_clamped(numbers) ==
    IF numbers = <<>> THEN <<>>
    ELSE LET score == PyInt(Head(numbers)) IN
         <<IF score > MaxScore THEN MaxScore ELSE score>> \o KeepValid_clamped(Tail(numbers))

\* as if the range were not checked
RECURSIVE KeepValid_unchecked(_)
KeepValid_unchecked(numbers) ==
    IF numbers = <<>> THEN <<>>
    ELSE <<PyInt(Head(numbers))>> \o KeepValid_unchecked(Tail(numbers))

\* the loop over numbers: in-range values are appended, the others skipped
RECURSIVE KeepValid(_)
KeepValid(numbers) ==
    IF numbers = <<>> THEN <<>>
    ELSE LET score == PyInt(Head(numbers)) IN
         (IF ValidScore(score) THEN <<score>> ELSE <<>>) \o KeepValid(Tail(numbers))

\* as if the numbers were extracted before the no-dart phrases are looked for
_parse_scores_digits_first(response) ==
    IF response = None
    THEN <<>>
    ELSE LET cleaned == Strip(response) IN
         IF FindAllDigits(cleaned) # <<>> THEN KeepValid(FindAllDigits(cleaned))
         ELSE IF IndicatesNoDarts(cleaned) THEN <<0>>
         ELSE <<>>

_parse_scores(response) ==
    IF response = None
    THEN <<>>    \* response.strip() raises AttributeError, caught: return []
    ELSE LET cleaned == Strip(response) IN
         IF IndicatesNoDarts(cleaned) THEN <<0>>
         ELSE KeepValid(FindAllDigits(cleaned))

----------------------------------------------------------------------------
(* The output format the prompt asks for: "20, 60, 50" *)

RECURSIVE IntToStr(_)
IntToStr(n) ==
    LET d == <<"0", "1", "2", "3", "4", "5", "6", "7", "8", "9">>[(n % 10) + 1] IN
    IF n < 10 THEN <<d>> ELSE Append(IntToStr(n \div 10), d)

RECURSIVE Render(_)
Render(scores) ==
    IF scores = <<>> THEN <<>>
    ELSE IF Len(scores) = 1 THEN IntToStr(scores[1])
    ELSE IntToStr(Head(scores)) \o <<",", " ">> \o Render(Tail(scores))

----------------------------------------------------------------------------
(* The serving endpoint's reply, as far as the service reads it *)

\* finish_reason of choice 0; "" stands for a missing, None or empty one
FinishReasons == {"", "stop", "content_filter", "safety"}

SafetyFinishReasons == {"content_filter", "safety"}

\* choices:  whether response.choices exists and is not empty
\* message:  choice 0 has no attribute message ("absent"), message None ("null"),
\*           or a message ("present") with content and refusal
\* text:     the flat text attribute of choice 0, Absent when there is none
\* usage:    response.usage is "present", None ("null") or no attribute ("absent")
Reply(choices, finish, message, content, refusal, text, usage) ==
    [choices |-> choices, finish_reason |-> finish, message |-> message,
     content |-> content, refusal |-> refusal, text |-> text, usage |-> usage]

NoReply == Reply(FALSE, "", "absent", None, None, Absent, "absent")

NoError == [exc |-> "", what |-> "", finish_reason |-> "", refusal |-> None]

Error(exc, what, finish, refusal) ==
    [exc |-> exc, what |-> what, finish_reason |-> finish, refusal |-> refusal]

\* whatever exception serving_endpoints.query raises
QueryError == Error("EndpointError", "query failed", "", None)

\* attribute access on None
AttributeError == Error("AttributeError", "'NoneType' object has no attribute", "", None)

Raised(err) == [raised |-> TRUE, err |-> err, text |-> <<>>]

Extracted(text) == [raised |-> FALSE, err |-> NoError, text |-> text]

\* x or ""
OrEmpty(x) == IF Truthy(x) THEN x ELSE <<>>

\* detect_score: "Check if response is empty"
CheckEmpty(raw_response) ==
    IF raw_response = <<>> \/ Strip(raw_response) = <<>>
    THEN Raised(Error("ValueError", "returned empty response", "", None))
    ELSE Extracted(raw_response)

\* as if the refusal were looked at before the finish reason
ExtractFirst_refusal_first(r) ==
    IF r.usage = "null" THEN Raised(AttributeError)
    ELSE IF ~r.choices THEN CheckEmpty(<<>>)
    ELSE IF r.message = "present" /\ OrEmpty(r.content) = <<>> /\ Truthy(r.refusal)
    THEN Raised(Error("ValueError", "refused", "", r.refusal))
    ELSE IF r.finish_reason \in SafetyFinishReasons
    THEN Raised(Error("ValueError", "blocked by", r.finish_reason, None))
    ELSE IF r.message = "null" THEN Raised(AttributeError)
    ELSE IF r.message = "present" THEN CheckEmpty(OrEmpty(r.content))
    ELSE IF r.text # Absent THEN CheckEmpty(OrEmpty(r.text))
    ELSE CheckEmpty(<<>>)

\* detect_score: from the reply to raw_response, or to the exception raised
ExtractFirst(r) ==
    IF r.usage = "null" THEN Raised(AttributeError)
    ELSE IF ~r.choices THEN CheckEmpty(<<>>)
    ELSE IF r.finish_reason \in SafetyFinishReasons
    THEN Raised(Error("ValueError", "blocked by", r.finish_reason, None))
    ELSE IF r.message = "null" THEN Raised(AttributeError)
    ELSE IF r.message = "present"
    THEN LET raw_response == OrEmpty(r.content) IN
         IF raw_response = <<>> /\ Truthy(r.refusal)
         THEN Raised(Error("ValueError", "refused", "", r.refusal))
         ELSE CheckEmpty(raw_response)
    ELSE IF r.text # Absent THEN CheckEmpty(OrEmpty(r.text))
    ELSE CheckEmpty(<<>>)

\* _retry_with_format_correction: from the reply to corrected_response
ExtractRetry(r) ==
    IF ~r.choices THEN Extracted(<<>>)
    ELSE IF r.message = "null" THEN Raised(AttributeError)
    ELSE IF r.message = "present" THEN Extracted(r.content)
    ELSE IF r.text # Absent THEN Extracted(r.text)
    ELSE Extracted(<<>>)

----------------------------------------------------------------------------
(* ScoreDetectionService.detect_score and _retry_with_format_correction *)

PrimaryMaxTokens == 100
CorrectionMaxTokens == 50
PrimaryTemperatureTenths == 3
CorrectionTemperatureTenths == 1

PrimaryCall ==
    [system_prompt |-> TRUE, temperature |-> PrimaryTemperatureTenths,
     max_tokens |-> PrimaryMaxTokens, previous_response |-> None]

CorrectionCall(previous_response) ==
    [system_prompt |-> FALSE, temperature |-> CorrectionTemperatureTenths,
     max_tokens |-> CorrectionMaxTokens, previous_response |-> previous_response]

OriginalPrefix == <<"O", "r", "i", "g", "i", "n", "a", "l", ":", " ">>

CorrectedAttemptInfix ==
    <<"\n", "C", "o", "r", "r", "e", "c", "t", "e", "d", " ",
      "a", "t", "t", "e", "m", "p", "t", ":", " ">>

CorrectedInfix ==
    <<"\n", "C", "o", "r", "r", "e", "c", "t", "e", "d", ":", " ">>

\* as if only the corrected attempt were reported
FailedRetryRaw_corrected_only(previous_response, corrected_response) ==
    PyStr(corrected_response)

\* f"Original: {previous_response}\nCorrected attempt: {corrected_response}"
FailedRetryRaw(previous_response, corrected_response) ==
    OriginalPrefix \o PyStr(previous_response)
        \o CorrectedAttemptInfix \o PyStr(corrected_response)

\* f"Original: {previous_response}\nCorrected: {corrected_response}"
CorrectedRaw(previous_response, corrected_response) ==
    OriginalPrefix \o PyStr(previous_response)
        \o CorrectedInfix \o PyStr(corrected_response)

\* as if a score of 0 were taken for a failed parse too
NeedsRetry_zero(scores) == scores = <<>> \/ scores = <<0>>

\* "if not scores": the first parse failed, retry with format correction
NeedsRetry(scores) == scores = <<>>

\* as if the safe default were missing
DefaultIfEmpty_missing(scores) == scores

\* "if not scores: scores = [0]" after the retry
DefaultIfEmpty(scores) == IF scores = <<>> THEN <<0>> ELSE scores

\* _retry_with_format_correction once its query returned r: (scores, raw)
RetryResult(r, previous_response) ==
    LET ex == ExtractRetry(r)
        scores == _parse_scores(ex.text) IN
    IF ex.raised THEN [scores |-> <<>>, raw |-> previous_response]
    ELSE IF scores = <<>>
    THEN [scores |-> <<>>, raw |-> FailedRetryRaw(previous_response, ex.text)]
    ELSE [scores |-> scores, raw |-> CorrectedRaw(previous_response, ex.text)]

\* _retry_with_format_correction once its query raised: (scores, raw)
RetryFailedResult(previous_response) == [scores |-> <<>>, raw |-> previous_response]

NoAttempt ==
    [status |-> "none", reply |-> NoReply, text |-> <<>>, scores |-> <<>>]

Attempt(status, reply, text, scores) ==
    [status |-> status, reply |-> reply, text |-> text, scores |-> scores]

NoOutcome == [kind |-> "none", scores |-> <<>>, raw_response |-> <<>>, err |-> NoError]

Returned(scores, raw_response) ==
    [kind |-> "returned", scores |-> scores, raw_response |-> raw_response, err |-> NoError]

Reraised(err) ==
    [kind |-> "raised", scores |-> <<>>, raw_response |-> <<>>, err |-> err]

----------------------------------------------------------------------------
(* router.detect_score, the POST /detect-score handler *)

ConfidenceHigh == 95
ConfidenceLow == 50
StatusServerError == 500

\* a Python value with its type
PyList(items) == [pytype |-> "list", val |-> items]

\* v > n for an int n: a list and an int do not compare
PyGreater(v, n) ==
    IF v.pytype = "int" THEN [raised |-> FALSE, val |-> v.val > n]
    ELSE [raised |-> TRUE, val |-> FALSE]

NoHttp ==
    [status |-> 0, score |-> PyList(<<>>), confidence |-> 0,
     raw_response |-> <<>>, detail |-> ""]

\* raise HTTPException(status_code=500, detail=f"Failed to detect score: {e}")
ServerError(exc) ==
    [status |-> StatusServerError, score |-> PyList(<<>>), confidence |-> 0,
     raw_response |-> <<>>, detail |-> exc]

\* the handler, given what service.detect_score returned or raised
Respond(result) ==
    IF result.kind = "raised" THEN ServerError(result.err.exc)
    ELSE LET score == PyList(result.scores)
             positive == PyGreater(score, 0) IN
         IF positive.raised THEN ServerError("TypeError")
         ELSE IF score.pytype # "int" THEN ServerError("ValidationError")
         ELSE [status |-> 200, score |-> score,    \* the route's default status
               confidence |-> IF positive.val THEN ConfidenceHigh ELSE ConfidenceLow,
               raw_response |-> result.raw_response, detail |-> ""]

----------------------------------------------------------------------------
(* The pipeline as a state machine: one /detect-score request *)

RECURSIVE TextsOf(_, _)
TextsOf(frags, n) ==
    IF n = 0 THEN {<<>>}
    ELSE LET shorter == TextsOf(frags, n - 1) IN
         shorter \cup {t \o f : t \in shorter, f \in frags}

\* pieces a reply text is put together from
ReplyFrags ==
    { <<"0", ",", " ", "6">>, <<"6", "1", ",", " ">>, <<"x">>, <<" ">>,
      <<"n", "o", "n", "e">> }

ReplyTexts == TextsOf(ReplyFrags, MaxReplyFrags)

RefusalText == <<"I", " ", "c", "a", "n", "n", "o", "t">>

\* the replies the endpoint may give
Replies ==
    {Reply(FALSE, "", "absent", None, None, Absent, u) : u \in {"present", "absent"}}
    \cup {Reply(TRUE, f, "present", c, None, Absent, "present") :
            f \in FinishReasons, c \in ReplyTexts \cup {None}}
    \cup {Reply(TRUE, f, "present", c, RefusalText, Absent, "present") :
            f \in FinishReasons, c \in {None, <<>>, <<"6">>}}
    \cup {Reply(TRUE, f, "absent", None, None, t, "absent") :
            f \in FinishReasons, t \in ReplyTexts \cup {None, Absent}}
    \cup {Reply(TRUE, f, "null", None, None, t, "present") :
            f \in FinishReasons, t \in {None, <<"6">>}}
    \cup {Reply(TRUE, "stop", "present", c, None, Absent, "null") :
            c \in {None, <<"6">>, <<"x">>}}

ParserOff ==
    /\ ppc = "off"
    /\ ptext = <<>>
    /\ pseq = <<>>
    /\ parsed = <<>>
    /\ rendered = <<>>
    /\ reparsed = <<>>

PipeIdle ==
    /\ pc = "idle"
    /\ calls = <<>>
    /\ first = NoAttempt
    /\ retry = NoAttempt
    /\ outcome = NoOutcome
    /\ http = NoHttp

Init == PipeIdle /\ ParserOff

\* the handler calls detect_score, which builds the prompt and queries the endpoint
Request ==
    /\ pc = "idle"
    /\ calls' = Append(calls, PrimaryCall)
    /\ pc' = "call1"
    /\ UNCHANGED <<first, retry, outcome, http>>
    /\ UNCHANGED parseVars

\* the first query raises: detect_score re-raises, the handler answers
FirstQueryFails ==
    /\ pc = "call1"
    /\ first' = Attempt("query_failed", NoReply, <<>>, <<>>)
    /\ outcome' = Reraised(QueryError)
    /\ http' = Respond(Reraised(QueryError))
    /\ pc' = "done"
    /\ UNCHANGED <<calls, retry>>
    /\ UNCHANGED parseVars

\* the first query returns r: extraction, parse, and either the result or the
\* correction query
FirstQueryReplies ==
    /\ pc = "call1"
    /\ \E r \in Replies :
         LET ex == ExtractFirst(r)
             scores == _parse_scores(ex.text) IN
         IF ex.raised
         THEN /\ first' = Attempt("extract_failed", r, <<>>, <<>>)
              /\ outcome' = Reraised(ex.err)
              /\ http' = Respond(Reraised(ex.err))
              /\ pc' = "done"
              /\ UNCHANGED calls
         ELSE IF NeedsRetry(scores)
         THEN /\ first' = Attempt("extracted", r, ex.text, scores)
              /\ calls' = Append(calls, CorrectionCall(ex.text))
              /\ pc' = "call2"
              /\ UNCHANGED <<outcome, http>>
         ELSE /\ first' = Attempt("extracted", r, ex.text, scores)
              /\ outcome' = Returned(scores, ex.text)
              /\ http' = Respond(Returned(scores, ex.text))
              /\ pc' = "done"
              /\ UNCHANGED calls
    /\ UNCHANGED retry
    /\ UNCHANGED parseVars

\* the correction query raises: caught in _retry_with_format_correction
RetryQueryFails ==
    /\ pc = "call2"
    /\ LET res == RetryFailedResult(first.text)
           result == Returned(DefaultIfEmpty(res.scores), res.raw) IN
         /\ retry' = Attempt("query_failed", NoReply, <<>>, <<>>)
         /\ outcome' = result
         /\ http' = Respond(result)
    /\ pc' = "done"
    /\ UNCHANGED <<calls, first>>
    /\ UNCHANGED parseVars

\* the correction query returns r
RetryQueryReplies ==
    /\ pc = "call2"
    /\ \E r \in Replies :
         LET ex == ExtractRetry(r)
             res == RetryResult(r, first.text)
             result == Returned(DefaultIfEmpty(res.scores), res.raw) IN
         /\ retry' = IF ex.raised
                     THEN Attempt("extract_failed", r, <<>>, <<>>)
                     ELSE Attempt("extracted", r, ex.text, _parse_scores(ex.text))
         /\ outcome' = result
         /\ http' = Respond(result)
    /\ pc' = "done"
    /\ UNCHANGED <<calls, first>>
    /\ UNCHANGED parseVars

Next ==
    \/ Request
    \/ FirstQueryFails
    \/ FirstQueryReplies
    \/ RetryQueryFails
    \/ RetryQueryReplies

Spec == Init /\ [][Next]_vars

----------------------------------------------------------------------------
(* Parser harness: _parse_scores applied to bounded texts *)

\* pieces a text is put together from
Frags ==
    { <<"6">>, <<"0">>, <<"1", ",", " ">>, <<"x">>, <<" ">>,
      <<"n", "o", " ">>, <<"d", "a", "r", "t">>,
      <<"v", "i", "s", "i", "b", "l", "e", " ">>,
      <<"N", "o", "N", "e">>, <<"e", "m", "p", "t", "y">>,
      <<"n", "o">>, <<"n", "e">> }

ParseTexts == TextsOf(Frags, MaxFrags)

\* scores a rendered sequence is made of
ScoreVals == {0, 1, 7, 10, 25, 59, 60}

RECURSIVE SeqsOf(_, _)
SeqsOf(S, n) ==
    IF n = 0 THEN {<<>>}
    ELSE LET shorter == SeqsOf(S, n - 1) IN
         shorter \cup {Append(q, v) : q \in shorter, v \in S}

ScoreSeqs == SeqsOf(ScoreVals, MaxScores) \ {<<>>}

InitParse ==
    /\ PipeIdle
    /\ ppc = "text"
    /\ \/ ptext \in ParseTexts /\ pseq = <<>>
       \/ pseq \in ScoreSeqs /\ ptext = Render(pseq)
    /\ parsed = <<>>
    /\ rendered = <<>>
    /\ reparsed = <<>>

\* scores = self._parse_scores(text)
ParseText ==
    /\ ppc = "text"
    /\ parsed' = _parse_scores(ptext)
    /\ ppc' = "parsed"
    /\ UNCHANGED <<ptext, pseq, rendered, reparsed>>
    /\ UNCHANGED pipeVars

\* the parsed scores, stringified, go through _parse_scores again
Reparse ==
    /\ ppc = "parsed"
    /\ parsed # <<>>
    /\ rendered' = Render(parsed)
    /\ reparsed' = _parse_scores(Render(parsed))
    /\ ppc' = "reparsed"
    /\ UNCHANGED <<ptext, pseq, parsed>>
    /\ UNCHANGED pipeVars

NextParse == ParseText \/ Reparse

SpecParse == InitParse /\ [][NextParse]_vars

----------------------------------------------------------------------------
(* Properties of _parse_scores, stated on the text itself *)

\* phrase occurs in t at position i, letter case ignored
PhraseAt(t, phrase, i) ==
    /\ i + Len(phrase) - 1 <= Len(t)
    /\ \A k \in 1..Len(phrase) : LowerChar(t[i + k - 1]) = phrase[k]

HasNoDartPhrase(t) ==
    \E phrase \in NoDartPhrases : \E i \in 1..Len(t) : PhraseAt(t, phrase, i)

\* the positions where a maximal digit run of t starts
RunStarts(t) ==
    {i \in 1..Len(t) : IsDigit(t[i]) /\ (i = 1 \/ ~IsDigit(t[i - 1]))}

RunEnd(t, i) ==
    CHOOSE j \in i..Len(t) :
        /\ \A k \in i..j : IsDigit(t[k])
        /\ j = Len(t) \/ ~IsDigit(t[j + 1])

RECURSIVE DecimalValue(_, _, _)
DecimalValue(t, i, j) ==
    IF j < i THEN 0 ELSE 10 * DecimalValue(t, i, j - 1) + DigitVal(t[j])

RunValue(t, i) == DecimalValue(t, i, RunEnd(t, i))

InRangeStarts(t) == {i \in RunStarts(t) : RunValue(t, i) \in 0..60}

\* the k-th smallest element of a set of positions
Kth(S, k) == CHOOSE i \in S : Cardinality({j \in S : j < i}) = k - 1

\* scores is the left-to-right sequence of the in-range digit tokens of t
IsInRangeTokens(scores, t) ==
    /\ Len(scores) = Cardinality(InRangeStarts(t))
    /\ \A k \in 1..Len(scores) : scores[k] = RunValue(t, Kth(InRangeStarts(t), k))

----------------------------------------------------------------------------
(* Properties of the pipeline *)

AllInRange(scores) == \A k \in 1..Len(scores) : scores[k] \in 0..60

\* the values of the digit tokens of t
TokenValues(t) == {RunValue(t, i) : i \in RunStarts(t)}

Done == pc = "done"

ReturnedNormally == Done /\ outcome.kind = "returned"

\* the correction retry ran and ended without scores
RetryEmpty == retry.status # "none" /\ retry.scores = <<>>

\* C1: whenever detect_score returns normally the returned score list is not
\* empty, and when the first parse and the correction retry both yield
\* nothing the returned scores are exactly [0].
C1_NeverEmpty ==
    ReturnedNormally =>
        /\ outcome.scores # <<>>
        /\ (first.scores = <<>> /\ RetryEmpty) => outcome.scores = <<0>>

C1_Witness ==
    /\ ReturnedNormally
    /\ first.scores = <<>>
    /\ retry.status = "extracted"
    /\ retry.text = <<"x">>
    /\ outcome.scores = <<0>>

\* an attempt's parse kept the in-range digit tokens, neither more nor fewer
ParseNotClamped(attempt) ==
    (attempt.status = "extracted" /\ ~HasNoDartPhrase(attempt.text))
        => Len(attempt.scores) = Cardinality(InRangeStarts(attempt.text))

\* C2: every score _parse_scores yields and every score detect_score returns
\* lies in 0..60; an out-of-range digit token is dropped, never replaced by a
\* clamped value.
C2_ScoresInRange ==
    /\ AllInRange(first.scores)
    /\ AllInRange(retry.scores)
    /\ AllInRange(outcome.scores)
    /\ ParseNotClamped(first)
    /\ ParseNotClamped(retry)
    /\ ReturnedNormally => outcome.scores \in {first.scores, retry.scores, <<0>>}

C2_Witness ==
    /\ ReturnedNormally
    /\ 61 \in TokenValues(first.text)
    /\ outcome.scores = <<0, 6>>

\* the first query returned, its text was extracted, and the parse was empty
FirstParseFailed ==
    /\ first.status \notin {"none", "query_failed"}
    /\ ~ExtractFirst(first.reply).raised
    /\ _parse_scores(ExtractFirst(first.reply).text) = <<>>

\* C3: the endpoint is queried at most twice; the second query is issued if
\* and only if the first returned, its text was extracted without error and
\* parsed to nothing; a failed first attempt propagates with no second query,
\* a failed second query is not followed by a third.
C3_AtMostTwoQueries ==
    /\ Len(calls) <= 2
    /\ Len(calls) = 2 <=> FirstParseFailed
    /\ first.status \in {"query_failed", "extract_failed"} =>
          /\ Done
          /\ outcome.kind = "raised"
          /\ Len(calls) = 1
          /\ retry.status = "none"
    /\ retry.status \in {"query_failed", "extract_failed"} => Done /\ Len(calls) = 2

C3_Witness ==
    /\ Done
    /\ Len(calls) = 2
    /\ retry.status = "query_failed"
    /\ first.text = <<"x">>
    /\ ~calls[2].system_prompt

\* C4: the fatal outcomes of the first attempt reach the caller as distinct
\* error kinds: two first replies that fail for different reasons never raise
\* the same kind of error.
C4_DistinctErrorKinds ==
    (Done /\ outcome.kind = "raised") =>
        \A r \in Replies :
            (ExtractFirst(r).raised /\ ExtractFirst(r).err.exc = outcome.err.exc)
                => ExtractFirst(r).err.what = outcome.err.what

\* the reply text the returned scores were parsed from
SourceText ==
    IF retry.status = "none" THEN first.text
    ELSE IF retry.status = "extracted" THEN retry.text
    ELSE <<>>

\* C7 as claimed: the returned list has no more entries than the reply has
\* digit tokens, and every returned score is the value of one of them.
C7_OnlyDigitTokens ==
    ReturnedNormally =>
        /\ Len(outcome.scores) <= Cardinality(RunStarts(SourceText))
        /\ \A k \in 1..Len(outcome.scores) : outcome.scores[k] \in TokenValues(SourceText)

\* the returned scores are the parse of a reply without a no-dart phrase
ParsedFromDigits ==
    /\ \/ first.scores # <<>>
       \/ retry.status = "extracted" /\ retry.scores # <<>>
    /\ ~HasNoDartPhrase(SourceText)

\* C7 amended: the returned list is [0] when the reply it was parsed from
\* contains a no-dart phrase or when the retry produced no scores; otherwise
\* it has no more entries than the reply has digit tokens and every returned
\* score is the value of one of them.
C7_DigitTokensOrZero ==
    ReturnedNormally =>
        IF ParsedFromDigits
        THEN /\ Len(outcome.scores) <= Cardinality(RunStarts(SourceText))
             /\ \A k \in 1..Len(outcome.scores) :
                    outcome.scores[k] \in TokenValues(SourceText)
        ELSE outcome.scores = <<0>>

C7_Witness ==
    /\ ReturnedNormally
    /\ retry.status = "extracted"
    /\ 61 \in TokenValues(retry.text)
    /\ Cardinality(RunStarts(retry.text)) = 3
    /\ outcome.scores = <<0, 6>>

\* s starts with p
StartsWith(s, p) == Len(p) <= Len(s) /\ SubSeq(s, 1, Len(p)) = p

\* the retry was made and ended with no scores
RetryGaveNothing == Done /\ Len(calls) = 2 /\ RetryEmpty

\* C8 as claimed: whenever the retry ends with no scores, also by an error,
\* the result is [0] with a raw response holding the first reply text and
\* more, not the first reply alone.
C8_RawCombinesBoth ==
    RetryGaveNothing =>
        /\ outcome.kind = "returned"
        /\ outcome.scores = <<0>>
        /\ outcome.raw_response # first.text
        /\ Contains(outcome.raw_response, first.text)

\* C8 amended: an unparsable corrected reply gives [0] with
\* "Original: <first>\nCorrected attempt: <corrected>"; a retry whose call or
\* extraction raised gives [0] with the first reply text alone.
C8_RawOfFailedRetry ==
    RetryGaveNothing =>
        /\ outcome.kind = "returned"
        /\ outcome.scores = <<0>>
        /\ outcome.raw_response =
              IF retry.status = "extracted"
              THEN OriginalPrefix \o first.text \o CorrectedAttemptInfix
                       \o (IF retry.text = None THEN <<"N", "o", "n", "e">> ELSE retry.text)
              ELSE first.text

C8_Witness ==
    /\ RetryGaveNothing
    /\ retry.status = "extracted"
    /\ first.text = <<"x">>
    /\ retry.text = <<"6", "1", ",", " ">>
    /\ StartsWith(outcome.raw_response, OriginalPrefix \o <<"x", "\n">>)

\* C9: whenever the inference core returns a result, the handler answers with
\* an integer score, the raw model text and a confidence of 0.95 for a score
\* above 0 and 0.5 otherwise, never with an HTTP 500.
C9_SuccessIsAnswered ==
    ReturnedNormally =>
        /\ http.status = 200
        /\ http.score.pytype = "int"
        /\ http.confidence = (IF http.score.val > 0 THEN 95 ELSE 50)
        /\ http.raw_response = outcome.raw_response

\* a text that is missing, None, empty or whitespace only
IsBlank(t) == t = None \/ t = Absent \/ \A i \in 1..Len(t) : t[i] \in {" ", "\t", "\n"}

\* choice 0 of r has a content-safety finish reason
IsBlockedReply(r) == r.choices /\ r.finish_reason \in {"content_filter", "safety"}

\* choice 0 of r has a message with an empty body and a refusal
IsRefusalReply(r) ==
    /\ r.choices
    /\ r.message = "present"
    /\ r.content \in {None, <<>>}
    /\ r.refusal \notin {None, <<>>}

\* r has no choices, or choice 0 carries blank text: in its message, or in
\* its flat text field when it has no message attribute
IsBlankReply(r) ==
    \/ ~r.choices
    \/ r.message = "present" /\ IsBlank(r.content)
    \/ r.message = "absent" /\ IsBlank(r.text)

\* the first reply came back and detect_score went on to extract its text
FirstExtractorRan ==
    /\ Done
    /\ first.status \in {"extracted", "extract_failed"}
    /\ first.reply.usage # "null"

\* the first attempt failed with this error: nothing parsed, no second query
FirstFailedAs(what) ==
    /\ first.status = "extract_failed"
    /\ first.scores = <<>>
    /\ outcome.kind = "raised"
    /\ outcome.err.what = what
    /\ Len(calls) = 1
    /\ retry.status = "none"

RetryReplied == Done /\ retry.status \in {"extracted", "extract_failed"}

\* C12: the correction retry extracts its reply by the rules of the first
\* attempt: a corrected reply with a content-safety finish reason, with an
\* empty body and a refusal, or with blank text is a failed extraction; its
\* content is never parsed into returned scores and the result is [0].
C12_RetryExtractsLikeFirst ==
    (/\ RetryReplied
     /\ \/ IsBlockedReply(retry.reply)
        \/ IsRefusalReply(retry.reply)
        \/ IsBlankReply(retry.reply))
    => /\ retry.scores = <<>>
       /\ outcome.kind = "returned"
       /\ outcome.scores = <<0>>

\* choice 0 of r has no message: no such attribute, or None
HasNoMessage(r) == r.choices /\ r.message \in {"absent", "null"}

\* C13: extraction falls back to the flat text field when choice 0 has no
\* message, absent or None: a non-blank text field is the extracted text, on
\* the first attempt and on the retry; with neither message nor text the
\* first attempt fails as an empty response and as no other error.
C13_FlatTextFallback ==
    /\ (/\ FirstExtractorRan
        /\ HasNoMessage(first.reply)
        /\ ~IsBlockedReply(first.reply))
       => IF IsBlank(first.reply.text)
          THEN FirstFailedAs("returned empty response")
          ELSE first.status = "extracted" /\ first.text = first.reply.text
    /\ (/\ RetryReplied
        /\ HasNoMessage(retry.reply)
        /\ ~IsBlank(retry.reply.text))
       => retry.status = "extracted" /\ retry.text = retry.reply.text

\* C5: a text containing "no dart", "no visible dart", "empty" or "none" in any
\* letter case parses to exactly [0], whatever digits it also contains.
C5_PhraseGivesZero ==
    (ppc # "text" /\ HasNoDartPhrase(ptext)) => parsed = <<0>>

C5_Witness ==
    /\ ppc = "parsed"
    /\ HasNoDartPhrase(ptext)
    /\ \E i \in 1..Len(ptext) : ptext[i] = "N"
    /\ \E i \in RunStarts(ptext) : RunValue(ptext, i) = 6
    /\ parsed = <<0>>

\* C6: a text without a no-dart phrase parses to the left-to-right sequence of
\* its maximal digit runs whose value is in 0..60, order and duplicates kept;
\* without digits, or with out-of-range tokens only, to the empty sequence.
C6_DigitRunsInRange ==
    (ppc # "text" /\ ~HasNoDartPhrase(ptext)) => IsInRangeTokens(parsed, ptext)

C6_Witness ==
    /\ ppc = "parsed"
    /\ ~HasNoDartPhrase(ptext)
    /\ \E i \in RunStarts(ptext) : RunValue(ptext, i) = 61
    /\ Len(parsed) = 1
    /\ Cardinality(RunStarts(ptext)) = 2

\* C10: a non-empty sequence of scores in 0..60, rendered as comma-separated
\* decimal text, parses back to itself; so parsing the rendering of a
\* non-empty parse reproduces the parse.
C10_RenderParseRoundTrip ==
    /\ (ppc # "text" /\ pseq # <<>>) => parsed = pseq
    /\ ppc = "reparsed" => reparsed = parsed

C10_Witness ==
    /\ ppc = "reparsed"
    /\ Len(pseq) = 3
    /\ pseq[1] = 0
    /\ pseq[2] = pseq[3]
    /\ reparsed = pseq

====
